---------------------------- MODULE Spec2Model ----------------------------
(***************************************************************************)
(* Homeofficinator (src/homeofficinator.py): one press of the "Let's go !" *)
(* button runs MainWindow.validate, which builds a Params object from the  *)
(* widgets, iterates the generator order_home_office and closes the        *)
(* requests session.  Dates are datetime values <<y, m, d, hh, mm, ss>>,   *)
(* strings are sequences of one-character strings.                         *)
(***************************************************************************)
EXTENDS Integers, Sequences, FiniteSets, TLC

(***************************************************************************)
(* Program constants and bounds of the model.                              *)
(***************************************************************************)
MAX_DAYS_BETWEEN_DATES == 100

\* the last day offset (from BaseDate) the date widgets offer in a full run
MaxDay == 8
\* the last day offset the "date from" widget offers
MaxStart == 1
\* the most leave records one answer of the leaves route carries
MaxItems == 2
\* the longest authToken typed in the entry
MaxTokenLen == 2
\* how far around MAX_DAYS_BETWEEN_DATES the validated spans go
Slack == 2

(***************************************************************************)
(* The calendar of datetime (proleptic Gregorian), as the standard library *)
(* computes it.                                                            *)
(***************************************************************************)
is_leap(y) == y % 4 = 0 /\ (y % 100 # 0 \/ y % 400 = 0)

DAYS_IN_MONTH == <<31, 28, 31, 30, 31, 30, 31, 31, 30, 31, 30, 31>>

days_in_month(y, m) == IF m = 2 /\ is_leap(y) THEN 29 ELSE DAYS_IN_MONTH[m]

days_before_year(y) ==
    LET y1 == y - 1 IN y1 * 365 + (y1 \div 4) - (y1 \div 100) + (y1 \div 400)

RECURSIVE days_before_month(_, _)
days_before_month(y, m) ==
    IF m = 1 THEN 0
    ELSE days_before_month(y, m - 1) + days_in_month(y, m - 1)

\* datetime.toordinal()
toordinal(dt) == days_before_year(dt[1]) + days_before_month(dt[1], dt[2]) + dt[3]

\* datetime.weekday(): Monday is 0
weekday(dt) == (toordinal(dt) + 6) % 7

\* seconds since midnight
SecondsOfDay(dt) == dt[4] * 3600 + dt[5] * 60 + dt[6]

\* a < b on datetimes (field by field, most significant first)
RECURSIVE LessFrom(_, _, _)
LessFrom(a, b, i) ==
    IF i > Len(a) THEN FALSE
    ELSE IF a[i] # b[i] THEN a[i] < b[i]
    ELSE LessFrom(a, b, i + 1)

DtLess(a, b) == LessFrom(a, b, 1)

\* (a - b) > timedelta(days = n), the timedelta normalised to seconds
SpanExceeds(a, b, n) ==
    (toordinal(a) - toordinal(b)) * 86400 + SecondsOfDay(a) - SecondsOfDay(b)
        > n * 86400

\* the calendar day after a date <<y, m, d>>
NextDate(d) ==
    IF d[3] < days_in_month(d[1], d[2]) THEN <<d[1], d[2], d[3] + 1>>
    ELSE IF d[2] < 12 THEN <<d[1], d[2] + 1, 1>>
    ELSE <<d[1] + 1, 1, 1>>

\* a datetime one day later, the time of day kept (rrule's DAILY step)
NextDay(dt) ==
    NextDate(<<dt[1], dt[2], dt[3]>>) \o <<dt[4], dt[5], dt[6]>>

(***************************************************************************)
(* Helpers of the program.                                                 *)
(***************************************************************************)
\* date_to_datetime: datetime.combine(date_, time())
date_to_datetime(date) == date \o <<0, 0, 0>>

\* the characters the class [0-9a-g-] holds
TokenClass ==
    {"0", "1", "2", "3", "4", "5", "6", "7", "8", "9",
     "a", "b", "c", "d", "e", "f", "g", "-"}

\* re.match(r"[0-9a-g-]+", s): the pattern matched at the start of s, the
\* rest of s free
re_match_token(s) == Len(s) >= 1 /\ s[1] \in TokenClass

\* check_auth_token: the message of the DataError raised, "" when accepted
check_auth_token(auth_token) ==
    IF auth_token = <<>> THEN "Please provide authToken"
    ELSE IF ~re_match_token(auth_token) THEN "AuthToken format is not ok"
    ELSE ""

\* the rrule weekdays of self._w_days, in the order of the list
W_DAYS == <<0, 1, 2, 3, 4>>

\* check_days: the checked weekdays, in list order (raw_days: weekday -> IntVar)
checked_days(raw_days) == SelectSeq(W_DAYS, LAMBDA w : raw_days[w] # 0)

check_days(raw_days) ==
    IF checked_days(raw_days) = <<>> THEN "Select at least one day" ELSE ""

\* a variant of check_dates that refuses a span of exactly the limit
DatesTooFarStrict(date_from, date_to) ==
    \/ DtLess(date_to, date_from)
    \/ SpanExceeds(date_to, date_from, MAX_DAYS_BETWEEN_DATES - 1)

\* Params._check_dates: TRUE when DataError is raised
check_dates(date_from, date_to) ==
    \/ DtLess(date_to, date_from)
    \/ SpanExceeds(date_to, date_from, MAX_DAYS_BETWEEN_DATES)


(***************************************************************************)
(* Leave record names: leave["name"].split("-", 2)[1] parsed by            *)
(* datetime.strptime(..., "%Y%m%d").                                       *)
(***************************************************************************)
DIGITS == <<"0", "1", "2", "3", "4", "5", "6", "7", "8", "9">>

IsDigit(c) == \E i \in 1..10 : DIGITS[i] = c

DigitVal(c) == (CHOOSE i \in 1..10 : DIGITS[i] = c) - 1

\* the first index >= from where s holds c, 0 when there is none
RECURSIVE IndexOf(_, _, _)
IndexOf(s, c, from) ==
    IF from > Len(s) THEN 0
    ELSE IF s[from] = c THEN from
    ELSE IndexOf(s, c, from + 1)

\* name.split("-", 2): the list of at most three parts
split_dash_2(name) ==
    LET i == IndexOf(name, "-", 1)
        j == IF i = 0 THEN 0 ELSE IndexOf(name, "-", i + 1)
    IN  IF i = 0 THEN <<name>>
        ELSE IF j = 0 THEN <<SubSeq(name, 1, i - 1), SubSeq(name, i + 1, Len(name))>>
        ELSE <<SubSeq(name, 1, i - 1), SubSeq(name, i + 1, j - 1),
               SubSeq(name, j + 1, Len(name))>>

\* the character of s at i, "" past the end
At(s, i) == IF i <= Len(s) THEN s[i] ELSE ""

\* the lengths the directive %m, (1[0-2]|0[1-9]|[1-9]), can match at i, in
\* the order the alternatives are tried
MonthLens(s, i) ==
    (IF At(s, i) = "1" /\ At(s, i + 1) \in {"0", "1", "2"} THEN <<2>> ELSE <<>>)
    \o (IF At(s, i) = "0" /\ IsDigit(At(s, i + 1)) /\ At(s, i + 1) # "0"
        THEN <<2>> ELSE <<>>)
    \o (IF IsDigit(At(s, i)) /\ At(s, i) # "0" THEN <<1>> ELSE <<>>)

\* the same for %d, (3[0-1]|[1-2]\d|0[1-9]|[1-9]| [1-9])
DayLens(s, i) ==
    (IF At(s, i) = "3" /\ At(s, i + 1) \in {"0", "1"} THEN <<2>> ELSE <<>>)
    \o (IF At(s, i) \in {"1", "2"} /\ IsDigit(At(s, i + 1)) THEN <<2>> ELSE <<>>)
    \o (IF At(s, i) = "0" /\ IsDigit(At(s, i + 1)) /\ At(s, i + 1) # "0"
        THEN <<2>> ELSE <<>>)
    \o (IF IsDigit(At(s, i)) /\ At(s, i) # "0" THEN <<1>> ELSE <<>>)
    \o (IF At(s, i) = " " /\ IsDigit(At(s, i + 1)) /\ At(s, i + 1) # "0"
        THEN <<2>> ELSE <<>>)

\* the number a run of digits (blanks skipped) denotes
RECURSIVE NumVal(_)
NumVal(s) ==
    IF s = <<>> THEN 0
    ELSE IF s[Len(s)] = " " THEN NumVal(SubSeq(s, 1, Len(s) - 1))
    ELSE NumVal(SubSeq(s, 1, Len(s) - 1)) * 10 + DigitVal(s[Len(s)])

\* datetime.strptime(s, "%Y%m%d"): <<datetime>>, or <<>> for ValueError.
\* The regular expression takes its first match (no anchor at the end), then
\* unconverted data is an error, then the date itself is validated.
strptime_Ymd(s) ==
    LET yearOk == \A i \in 1..4 : IsDigit(At(s, i))
        ms == SelectSeq(MonthLens(s, 5), LAMBDA l : DayLens(s, 5 + l) # <<>>)
    IN  IF ~yearOk \/ ms = <<>> THEN <<>>
        ELSE LET ml == Head(ms)
                 dl == Head(DayLens(s, 5 + ml))
                 y == NumVal(SubSeq(s, 1, 4))
                 m == NumVal(SubSeq(s, 5, 4 + ml))
                 d == NumVal(SubSeq(s, 5 + ml, 4 + ml + dl))
             IN  IF 4 + ml + dl # Len(s) THEN <<>>
                 ELSE IF y < 1 \/ d > days_in_month(y, m) THEN <<>>
                 ELSE << <<y, m, d, 0, 0, 0>> >>

\* a variant of parse_leave that drops a record it cannot parse
ParseLeaveLenient(name) ==
    LET parts == split_dash_2(name)
    IN  IF Len(parts) < 2 THEN [exc |-> "", dt |-> <<>>]
        ELSE [exc |-> "", dt |-> strptime_Ymd(parts[2])]

\* one element of the set comprehension of _get_all_leaves: the class of the
\* exception raised ("" for none) and the datetime
parse_leave(name) ==
    LET parts == split_dash_2(name)
    IN  IF Len(parts) < 2 THEN [exc |-> "IndexError", dt |-> <<>>]
        ELSE IF strptime_Ymd(parts[2]) = <<>> THEN [exc |-> "ValueError", dt |-> <<>>]
        ELSE [exc |-> "", dt |-> strptime_Ymd(parts[2])]

\* the exception of the first record that fails, "" when all parse
RECURSIVE FirstParseError(_)
FirstParseError(items) ==
    IF items = <<>> THEN ""
    ELSE IF parse_leave(Head(items)).exc # "" THEN parse_leave(Head(items)).exc
    ELSE FirstParseError(Tail(items))

ParsedLeaves(items) ==
    UNION {{parse_leave(items[i]).dt[k] : k \in DOMAIN parse_leave(items[i]).dt}
           : i \in DOMAIN items}

(***************************************************************************)
(* rrule.rrule(DAILY, byweekday, dtstart).between(after, before, inc=True) *)
(***************************************************************************)
RECURSIVE Walk(_, _, _, _)
Walk(cur, after, before, byweekday) ==
    IF DtLess(before, cur) THEN <<>>
    ELSE (IF weekday(cur) \in byweekday /\ ~DtLess(cur, after) THEN <<cur>> ELSE <<>>)
         \o Walk(NextDay(cur), after, before, byweekday)

RECURSIVE WalkExclusive(_, _, _, _)
WalkExclusive(cur, after, before, byweekday) ==
    IF ~DtLess(cur, before) THEN <<>>
    ELSE (IF weekday(cur) \in byweekday /\ DtLess(after, cur) THEN <<cur>> ELSE <<>>)
         \o WalkExclusive(NextDay(cur), after, before, byweekday)

SeqRange(s) == {s[i] : i \in DOMAIN s}

\* inc=False: both ends left out
BetweenExclusive(days, date_from, date_to) ==
    WalkExclusive(date_from, date_from, date_to, SeqRange(days))

\* the list order_home_office iterates
candidate_days(days, date_from, date_to) ==
    Walk(date_from, date_from, date_to, SeqRange(days))

(***************************************************************************)
(* What the user enters and what the server answers.                       *)
(***************************************************************************)
BaseDate == <<2024, 2, 26>>

\* the date k days after a date, month by month
RECURSIVE AddDays(_, _)
AddDays(date, k) ==
    IF date[3] + k <= days_in_month(date[1], date[2])
    THEN <<date[1], date[2], date[3] + k>>
    ELSE AddDays(NextDate(<<date[1], date[2], days_in_month(date[1], date[2])>>),
                 k - (days_in_month(date[1], date[2]) - date[3] + 1))

DateAt(k) == AddDays(BaseDate, k)

\* the IntVars of the five Checkbuttons with exactly the days of S checked
Checked(S) == [w \in 0..4 |-> IF w \in S THEN 1 ELSE 0]

DaySelections ==
    {Checked(S) : S \in {{}, {0}, {0, 2}, {1, 3, 4}, {0, 1, 2, 3, 4}}}

TokenChars == {"0", "g", "h"}

Tokens == UNION {[1..n -> TokenChars] : n \in 0..MaxTokenLen}

RunTokens == {<<>>, <<"h">>, <<"0", "g">>}

OwnerIds == {41, 42}

\* names of leave records: three well formed (26 February, 29 February with
\* a dash in the suffix, 1 March from a seven digit token and no suffix),
\* one whose token is no date, one without any dash
LeaveNames ==
    { <<"L", "-", "2", "0", "2", "4", "0", "2", "2", "6", "-", "a">>,
      <<"L", "-", "2", "0", "2", "4", "0", "2", "2", "9", "-", "a", "-", "b">>,
      <<"L", "-", "2", "0", "2", "4", "0", "3", "1">>,
      <<"L", "-", "b", "a", "d", "-", "a">>,
      <<"L">> }

ItemLists == UNION {[1..n -> LeaveNames] : n \in 0..MaxItems}

\* an answer of the server: exc is a transport failure (no answer at all),
\* body is <<>> when the JSON lacks the field the program reads
NoResponse == [exc |-> FALSE, status |-> 0, body |-> <<>>]

TransportFailure == [exc |-> TRUE, status |-> 0, body |-> <<>>]

Answer(status, body) == [exc |-> FALSE, status |-> status, body |-> body]

OwnerResponses ==
    {TransportFailure, Answer(403, <<>>), Answer(200, <<>>)}
    \cup {Answer(200, <<id>>) : id \in OwnerIds}

LeavesResponses ==
    {TransportFailure, Answer(403, <<>>), Answer(304, <<>>), Answer(200, <<>>)}
    \cup {Answer(200, <<items>>) : items \in ItemLists}

PostResponses ==
    {TransportFailure} \cup {Answer(st, <<>>) : st \in {200, 201, 304, 403}}

(***************************************************************************)
(* The state of one run of MainWindow.validate.                            *)
(***************************************************************************)
VARIABLES
    widgets,     \* _var_authtoken, _w_days, _widget_date_from, _widget_date_to
    pc,          \* where validate stands
    p,           \* <<>> for None, else <<the Params object>>
    session,     \* the cached property Params.session: <<>> or <<session number>>
    owner_id,    \* the cached property Params.owner_id: <<>> or <<id>>
    closed,      \* per requests.Session created, how often close() was called
    net,         \* the HTTP requests made, each with its answer
    leaves,      \* the set _get_all_leaves returned
    candidates,  \* the list rrule...between() returned
    idx,         \* the index in candidates of the current day
    log,         \* the lines written to the log widget
    raised,      \* the class of the exception that ended the run, "" for none
    dialog       \* the showerror dialog: <<>> or <<title, text>>

vars == <<widgets, pc, p, session, owner_id, closed, net, leaves, candidates,
          idx, log, raised, dialog>>

InitRun ==
    /\ pc = "start"
    /\ p = <<>>
    /\ session = <<>>
    /\ owner_id = <<>>
    /\ closed = <<>>
    /\ net = <<>>
    /\ leaves = {}
    /\ candidates = <<>>
    /\ idx = 0
    /\ log = <<>>
    /\ raised = ""
    /\ dialog = <<>>

Init ==
    /\ widgets \in [authtoken : RunTokens,
                    days : DaySelections,
                    date_from : {DateAt(k) : k \in 0..MaxStart},
                    date_to : {DateAt(k) : k \in 0..MaxDay}]
    /\ InitRun

\* the same window with long tokens and with spans around the limit
InitParams ==
    /\ widgets \in [authtoken : Tokens,
                    days : DaySelections,
                    date_from : {DateAt(k) : k \in 0..Slack},
                    date_to : {DateAt(k) : k \in (0..Slack) \cup
                                  ((MAX_DAYS_BETWEEN_DATES - Slack)
                                      ..(MAX_DAYS_BETWEEN_DATES + 2 * Slack))}]
    /\ InitRun

(***************************************************************************)
(* Params and the HTTP wrapper.                                            *)
(***************************************************************************)
\* Params(...): the validators in field order, then _check_dates; the
\* message of the DataError that escapes, "" when the object is built
params_error(w) ==
    IF check_auth_token(w.authtoken) # "" THEN check_auth_token(w.authtoken)
    ELSE IF check_days(w.days) # "" THEN check_days(w.days)
    ELSE IF check_dates(date_to_datetime(w.date_from), date_to_datetime(w.date_to))
         THEN "Dates are incorrect (cannot be more than 100 days apart)"
    ELSE ""

new_params(w) ==
    [auth_token |-> w.authtoken,
     date_from |-> date_to_datetime(w.date_from),
     date_to |-> date_to_datetime(w.date_to),
     days |-> checked_days(w.days)]

\* decorate_http.wrapper: HttpError when the call or raise_for_status raises
http_raises(resp) == resp.exc \/ (resp.status >= 400 /\ resp.status < 600)

\* a variant of owner_cached for a plain property: nothing is kept
OwnerNeverCached(oid) == FALSE

\* cached_property: the value is in the instance dictionary
owner_cached(oid) == oid # <<>>

session_cached(sess) == sess # <<>>

\* Params.session
get_session(sess, cl) ==
    IF session_cached(sess) THEN [session |-> sess, closed |-> cl]
    ELSE [session |-> <<Len(cl) + 1>>, closed |-> Append(cl, 0)]

\* Params.close
close(sess, cl) ==
    LET g == get_session(sess, cl)
    IN  [session |-> g.session,
         closed |-> [g.closed EXCEPT ![g.session[1]] = @ + 1]]

\* the answers the lookup of Params.owner_id can meet
LookupResponses(oid) ==
    IF owner_cached(oid) THEN {NoResponse} ELSE OwnerResponses

\* Params.owner_id read with the lookup answered by ro
get_owner_id(oid, sess, cl, ro) ==
    IF owner_cached(oid)
    THEN [reqs |-> <<>>, exc |-> "", owner_id |-> oid, session |-> sess,
          closed |-> cl]
    ELSE LET g == get_session(sess, cl)
             exc == IF http_raises(ro) THEN "HttpError"
                    ELSE IF ro.body = <<>> THEN "KeyError"
                    ELSE ""
         IN  [reqs |-> << [route |-> "me", resp |-> ro] >>,
              exc |-> exc,
              owner_id |-> IF exc = "" THEN <<ro.body[1]>> ELSE oid,
              session |-> g.session,
              closed |-> g.closed]

\* the except clauses of validate
dialog_for(cls, text) ==
    IF cls = "DataError" THEN <<"Error in the parameters", text>>
    ELSE IF cls = "HttpError" THEN <<"Error during execution", text>>
    ELSE <<>>

\* an exception leaves validate with p set: except clause, then finally
Abort(cls, text, sess, cl) ==
    LET c == close(sess, cl)
    IN  /\ raised' = cls
        /\ dialog' = dialog_for(cls, text)
        /\ session' = c.session
        /\ closed' = c.closed
        /\ pc' = "done"

\* the generator is exhausted: p.close() of the try block, then of finally
Complete(sess, cl) ==
    LET c1 == close(sess, cl)
        c2 == close(c1.session, c1.closed)
    IN  /\ session' = c2.session
        /\ closed' = c2.closed
        /\ pc' = "done"
        /\ UNCHANGED <<raised, dialog>>

(***************************************************************************)
(* order_home_office and _get_all_leaves.                                  *)
(***************************************************************************)
\* f"{d:%Y-%m-%d}"
strf_date(dt) == <<dt[1], dt[2], dt[3]>>

\* day.strftime("%Y-%m-%dT00:00:00")
strf_midnight(dt) == <<dt[1], dt[2], dt[3], 0, 0, 0>>

\* a variant of is_taken that looks the date up among the datetimes of the
\* set: never equal
DateInLeaves(day, lv) == strf_date(day) \in lv

\* day in leaves
is_taken(day, lv) == day \in lv

\* ans.status_code == 200
is_success(status) == status = 200

\* the loop moves to the next day, or the generator ends and validate closes
NextIteration(sess, cl) ==
    IF idx < Len(candidates)
    THEN /\ idx' = idx + 1
         /\ pc' = "announce"
         /\ session' = sess
         /\ closed' = cl
         /\ UNCHANGED <<raised, dialog>>
    ELSE /\ Complete(sess, cl)
         /\ UNCHANGED idx

\* the "Let's go !" button: Params(...) is built from the widgets
Construct ==
    /\ pc = "start"
    /\ IF params_error(widgets) # ""
       THEN /\ raised' = "DataError"
            /\ dialog' = dialog_for("DataError", params_error(widgets))
            /\ pc' = "done"
            /\ UNCHANGED p
       ELSE /\ p' = <<new_params(widgets)>>
            /\ pc' = "owner"
            /\ UNCHANGED <<raised, dialog>>
    /\ UNCHANGED <<widgets, session, owner_id, closed, net, leaves,
                   candidates, idx, log>>

\* _get_all_leaves builds its query: params.owner_id is read
OwnerLookup ==
    /\ pc = "owner"
    /\ \E ro \in LookupResponses(owner_id) :
          LET o == get_owner_id(owner_id, session, closed, ro)
          IN  /\ net' = net \o o.reqs
              /\ owner_id' = o.owner_id
              /\ IF o.exc # ""
                 THEN Abort(o.exc, "me", o.session, o.closed)
                 ELSE /\ session' = o.session
                      /\ closed' = o.closed
                      /\ pc' = "leaves"
                      /\ UNCHANGED <<raised, dialog>>
    /\ UNCHANGED <<widgets, p, leaves, candidates, idx, log>>

\* _http_get_all_leaves is answered; the names are parsed, the days listed
LeavesQuery ==
    /\ pc = "leaves"
    /\ \E r \in LeavesResponses :
          LET g == get_session(session, closed)
              req == [route |-> "leaves",
                      ownerId |-> owner_id[1],
                      date |-> <<strf_date(p[1].date_from), strf_date(p[1].date_to)>>,
                      resp |-> r]
              exc == IF http_raises(r) THEN "HttpError"
                     ELSE IF r.body = <<>> THEN "KeyError"
                     ELSE FirstParseError(r.body[1])
              days == candidate_days(p[1].days, p[1].date_from, p[1].date_to)
          IN  /\ net' = Append(net, req)
              /\ IF exc # ""
                 THEN /\ Abort(exc, "leaves", g.session, g.closed)
                      /\ UNCHANGED <<leaves, candidates, idx>>
                 ELSE /\ leaves' = ParsedLeaves(r.body[1])
                      /\ candidates' = days
                      /\ IF days = <<>>
                         THEN /\ Complete(g.session, g.closed)
                              /\ UNCHANGED idx
                         ELSE /\ idx' = 1
                              /\ pc' = "announce"
                              /\ session' = g.session
                              /\ closed' = g.closed
                              /\ UNCHANGED <<raised, dialog>>
    /\ UNCHANGED <<widgets, p, owner_id, log>>

\* yield ">>> Trying for {day}...", written to the log by validate
Announce ==
    /\ pc = "announce"
    /\ log' = Append(log, <<"Trying", candidates[idx]>>)
    /\ pc' = "decide"
    /\ UNCHANGED <<widgets, p, session, owner_id, closed, net, leaves,
                   candidates, idx, raised, dialog>>

\* the day is in leaves: "[x] Already taken", continue
AlreadyTaken ==
    /\ pc = "decide"
    /\ is_taken(candidates[idx], leaves)
    /\ log' = Append(log, <<"Already taken">>)
    /\ NextIteration(session, closed)
    /\ UNCHANGED <<widgets, p, owner_id, net, leaves, candidates>>

\* the day is not in leaves: the payload is built and posted
Submit ==
    /\ pc = "decide"
    /\ ~is_taken(candidates[idx], leaves)
    /\ \E ro \in LookupResponses(owner_id), r \in PostResponses :
          LET o == get_owner_id(owner_id, session, closed, ro)
              g == get_session(o.session, o.closed)
              daystr == strf_midnight(candidates[idx])
              req == [route |-> "post",
                      ownerId |-> o.owner_id[1],
                      startsOn |-> daystr,
                      endsOn |-> daystr,
                      resp |-> r]
          IN  /\ owner_id' = o.owner_id
              /\ IF o.exc # ""
                 THEN /\ net' = net \o o.reqs
                      /\ Abort(o.exc, "me", o.session, o.closed)
                      /\ UNCHANGED <<log, idx>>
                 ELSE /\ net' = (net \o o.reqs) \o <<req>>
                      /\ IF http_raises(r)
                         THEN /\ Abort("HttpError", "post", g.session, g.closed)
                              /\ UNCHANGED <<log, idx>>
                         ELSE /\ log' = Append(log,
                                     IF is_success(r.status) THEN <<"SUCCESS">>
                                     ELSE <<"FAILURE", r.status>>)
                              /\ NextIteration(g.session, g.closed)
    /\ UNCHANGED <<widgets, p, leaves, candidates>>

Next ==
    \/ Construct
    \/ OwnerLookup
    \/ LeavesQuery
    \/ Announce
    \/ AlreadyTaken
    \/ Submit

Spec == Init /\ [][Next]_vars

\* Params(...) alone, on the wide inputs
NextParams == Construct

SpecParams == InitParams /\ [][NextParams]_vars

(***************************************************************************)
(* Properties.                                                             *)
(***************************************************************************)
PostIndexes == {i \in DOMAIN net : net[i].route = "post"}

MeIndexes == {i \in DOMAIN net : net[i].route = "me"}

LeavesIndexes == {i \in DOMAIN net : net[i].route = "leaves"}

\* a status of the 2xx range
Is2xx(status) == status >= 200 /\ status <= 299

\* the dates the widgets can show, by their distance from BaseDate
Calendar == [k \in 0..(MAX_DAYS_BETWEEN_DATES + 2 * Slack + MaxDay) |-> DateAt(k)]

\* the same dates as the midnight datetimes Params holds
CalendarDt ==
    [k \in 0..(MAX_DAYS_BETWEEN_DATES + 2 * Slack + MaxDay) |-> Calendar[k] \o <<0, 0, 0>>]

DtAt(k) == CalendarDt[k]

\* the name carries a date token as its second "-"-delimited segment
HasDateToken(name) ==
    /\ Len(split_dash_2(name)) >= 2
    /\ strptime_Ymd(split_dash_2(name)[2]) # <<>>

\* the record names the server can send that carry no date token
NamesWithoutToken == {name \in LeaveNames : ~HasDateToken(name)}

\* the list of candidates has been computed in this state
CandidatesKnown ==
    \/ pc \in {"announce", "decide"}
    \/ pc = "done" /\ (raised = "" \/ log # <<>>)

\* C1: no creation request is ever issued for a candidate day that is in the
\* set _get_all_leaves returned; in the log the announcement of such a day
\* is followed by "Already taken" (or is the last line while the loop stands
\* right after the announcement).
C1_NoRequestForTakenDay ==
    /\ \A i \in PostIndexes : net[i].startsOn \notin leaves
    /\ \A k \in DOMAIN log :
          (log[k][1] = "Trying" /\ log[k][2] \in leaves) =>
              IF k < Len(log) THEN log[k + 1] = <<"Already taken">>
              ELSE pc = "decide"

C1_Witness ==
    /\ pc = "done"
    /\ raised = ""
    /\ PostIndexes # {}
    /\ \E k \in DOMAIN log : log[k] = <<"Already taken">>

\* C2: when a creation request is answered with a non-success status, the
\* finished run has logged "FAILURE : <status>" for that day and has posted
\* a request for every candidate day that is not in the leave set.
C2_FailedSubmissionContinues ==
    pc = "done" =>
        \A i \in PostIndexes :
            (~net[i].resp.exc /\ ~Is2xx(net[i].resp.status)) =>
                /\ \E k \in DOMAIN log :
                      /\ k > 1
                      /\ log[k][1] = "FAILURE"
                      /\ log[k][2] = net[i].resp.status
                      /\ log[k - 1][1] = "Trying"
                      /\ strf_midnight(log[k - 1][2]) = net[i].startsOn
                /\ \A c \in DOMAIN candidates :
                      candidates[c] \notin leaves =>
                          \E j \in PostIndexes :
                              net[j].startsOn = strf_midnight(candidates[c])

\* C3: when a run that created a session has ended, every session created
\* has been closed exactly once.
C3_SessionClosedExactlyOnce ==
    (pc = "done" /\ closed # <<>>) => \A n \in DOMAIN closed : closed[n] = 1

\* C4: a run that fails before the loop issues no creation request: a
\* validation error comes before any request at all, and a failed identity
\* lookup, a non-success answer of the leaves route or a leave record without
\* a parseable date token leaves the run without any creation request.
C4_NoPostAfterEarlyFailure ==
    /\ raised = "DataError" => net = <<>>
    /\ \A i \in MeIndexes :
          (net[i].resp.exc \/ ~Is2xx(net[i].resp.status) \/ net[i].resp.body = <<>>)
              => PostIndexes = {}
    /\ \A i \in LeavesIndexes :
          (net[i].resp.exc \/ ~Is2xx(net[i].resp.status)) => PostIndexes = {}
    /\ \A i \in LeavesIndexes :
          (/\ net[i].resp.body # <<>>
           /\ \E n \in DOMAIN net[i].resp.body[1] :
                 net[i].resp.body[1][n] \in NamesWithoutToken)
              => PostIndexes = {}

C4_Witness ==
    /\ pc = "done"
    /\ raised = "ValueError"
    /\ \E i \in LeavesIndexes :
          /\ Is2xx(net[i].resp.status)
          /\ net[i].resp.body # <<>>
          /\ \E n \in DOMAIN net[i].resp.body[1] :
                net[i].resp.body[1][n] \in NamesWithoutToken

\* C5: the list of candidate days is exactly the days of the inclusive range
\* [date_from, date_to] whose weekday is selected, in strictly ascending
\* order.  BaseDate is a Monday, so the day k days after it has weekday k % 7.
C5_CandidateDays ==
    CandidatesKnown =>
        \A kf \in 0..MaxStart, kt \in 0..MaxDay :
            (p[1].date_from = DtAt(kf) /\ p[1].date_to = DtAt(kt)) =>
                /\ \A i \in DOMAIN candidates :
                      \E k \in kf..kt :
                          /\ candidates[i] = DtAt(k)
                          /\ \E n \in DOMAIN p[1].days : p[1].days[n] = k % 7
                /\ \A i \in DOMAIN candidates :
                      i < Len(candidates) =>
                          \E k1, k2 \in kf..kt :
                              /\ k1 < k2
                              /\ candidates[i] = DtAt(k1)
                              /\ candidates[i + 1] = DtAt(k2)
                /\ \A k \in kf..kt :
                      (\E n \in DOMAIN p[1].days : p[1].days[n] = k % 7) =>
                          \E i \in DOMAIN candidates : candidates[i] = DtAt(k)

C5_Witness ==
    /\ pc = "done"
    /\ raised = ""
    /\ Len(candidates) >= 3
    /\ candidates[1] = p[1].date_from
    /\ candidates[Len(candidates)] = p[1].date_to
    /\ \E i, j \in DOMAIN candidates :
          i < j /\ weekday(candidates[i]) = weekday(candidates[j])

\* C6: once Params(...) has run, a pair with date_to before date_from or
\* more than 100 days after it has been rejected with a DataError and no
\* request made, and a pair 0 to 100 days apart has been accepted whenever
\* the token and the weekdays pass their own checks.
C6_DateRangeValidation ==
    pc # "start" =>
        \A kf \in 0..Slack,
           kt \in 0..(MAX_DAYS_BETWEEN_DATES + 2 * Slack) :
            (widgets.date_from = Calendar[kf] /\ widgets.date_to = Calendar[kt]) =>
                /\ (kt < kf \/ kt - kf > MAX_DAYS_BETWEEN_DATES) =>
                      /\ raised = "DataError"
                      /\ p = <<>>
                      /\ net = <<>>
                      /\ (check_auth_token(widgets.authtoken) = ""
                          /\ check_days(widgets.days) = "") =>
                             dialog = <<"Error in the parameters",
                                        "Dates are incorrect (cannot be more than 100 days apart)">>
                /\ (kt >= kf /\ kt - kf <= MAX_DAYS_BETWEEN_DATES
                    /\ check_auth_token(widgets.authtoken) = ""
                    /\ check_days(widgets.days) = "") =>
                      /\ raised = ""
                      /\ p # <<>>
                      /\ p[1].date_from = DtAt(kf)
                      /\ p[1].date_to = DtAt(kt)

C6_Witness ==
    /\ pc = "owner"
    /\ p # <<>>
    /\ widgets.date_from = Calendar[0]
    /\ widgets.date_to = Calendar[MAX_DAYS_BETWEEN_DATES]

\* C7: for a creation request that was answered, the line after the
\* announcement of its day is "SUCCESS" exactly when the status is in the 2xx
\* range, and "FAILURE : <status>" with that status otherwise.
C7_SuccessIffAny2xx ==
    \A i \in PostIndexes :
        ~net[i].resp.exc =>
            \E k \in DOMAIN log :
                /\ k > 1
                /\ log[k - 1][1] = "Trying"
                /\ strf_midnight(log[k - 1][2]) = net[i].startsOn
                /\ IF Is2xx(net[i].resp.status) THEN log[k][1] = "SUCCESS"
                   ELSE log[k][1] = "FAILURE" /\ log[k][2] = net[i].resp.status

\* C8: the token of a Params object that was built (check_auth_token let
\* it pass) is non-empty and consists of characters of the token class only.
C8_WholeTokenChecked ==
    p # <<>> =>
        /\ p[1].auth_token # <<>>
        /\ \A i \in DOMAIN p[1].auth_token : p[1].auth_token[i] \in TokenClass

\* C9: a run makes at most one request to the "me" route, and every request
\* to the leaves route and every creation request comes after it and carries
\* the id that lookup returned.
C9_OwnerResolvedOnce ==
    /\ Cardinality(MeIndexes) <= 1
    /\ \A i \in LeavesIndexes \cup PostIndexes :
          \E j \in MeIndexes :
              /\ j < i
              /\ net[j].resp.body = <<net[i].ownerId>>

C9_Witness ==
    /\ pc = "done"
    /\ Cardinality(PostIndexes) >= 2
    /\ Cardinality(LeavesIndexes) = 1

\* C10: the log of a finished run is well formed: the announced days are in
\* ascending order, every announcement is directly followed by one outcome
\* line, and every outcome line directly follows an announcement.
C10_LogWellFormed ==
    pc = "done" =>
        /\ \A k \in DOMAIN log :
              log[k][1] = "Trying" =>
                  /\ k < Len(log)
                  /\ log[k + 1][1] \in {"Already taken", "SUCCESS", "FAILURE"}
        /\ \A k \in DOMAIN log :
              log[k][1] # "Trying" => (k > 1 /\ log[k - 1][1] = "Trying")
        /\ \A k1, k2 \in DOMAIN log :
              (k1 < k2 /\ log[k1][1] = "Trying" /\ log[k2][1] = "Trying") =>
                  DtLess(log[k1][2], log[k2][2])

=============================================================================
